---- MODULE Spec2Model ----
(***************************************************************************)
(* lex-sequence: a sequence of nonnegative integers whose BASE digit       *)
(* strings are enumerated in lexicographic order with no prefixes.         *)
(*                                                                         *)
(* The library (src/src/index.ts) is four pure functions closed over a     *)
(* base.  The state machine below is a caller of the library, shaped like  *)
(* src/test/index.test.ts: a "before" phase that iterates successor from   *)
(* 0, then a "tests" phase that calls the four entry points on arbitrary   *)
(* arguments and records each call with its outcome.                       *)
(***************************************************************************)
EXTENDS Integers, Sequences, FiniteSets, TLC

\* ------------------------------------------------------------------ bounds
\* Bases tried are -1 .. 2*MaxHalfBase, and 25 (an odd base above the range).
MaxHalfBase == 5
\* The before phase builds the members of index 0 .. MaxIndex.
MaxIndex == 40
\* Values handed to sequenceInv, sequenceInvSafe, successor: -NegArgs .. MaxValue.
MaxValue == 260
\* Negative arguments tried: -NegArgs .. -1.
NegArgs == 2
\* Digit lengths whose ranges first(d) .. last(d) are examined: 1 .. MaxDigits.
MaxDigits == 4

Bases == (-1 .. 2 * MaxHalfBase) \cup {25}
IndexArgs == (0 - NegArgs) .. MaxIndex

VARIABLES
    base,           \* the base handed to lexSequence
    logRoundsDown,  \* whether Math.log(seq) / logBase falls below k at seq = base^k
    phase,          \* "before" (building by successor), "tests", "called"
    first10k,       \* the numbers generated with successor, first10k[i + 1] the i-th
    call            \* the latest call: [op, arg, ret, err]

vars == <<base, logRoundsDown, phase, first10k, call>>

\* How many times successor has been applied, and first10k.at(-1).
idx == Len(first10k) - 1
cur == first10k[Len(first10k)]

\* The values the tests hand to sequenceInv, sequenceInvSafe and successor:
\* the numbers of first10k, and every integer of a range around the small ones.
ValueArgs == ((0 - NegArgs) .. MaxValue) \cup {first10k[i] : i \in 1 .. Len(first10k)}
MemberArgs == {seq \in ValueArgs : seq >= 0}

\* -------------------------------------------------------------- outcomes
Return(v) == [ret |-> v, err |-> "none"]
Throw(e) == [ret |-> 0, err |-> e]

\* ------------------------------------------------------------- arithmetic
\* Math.pow(b, e) for integers b and e >= 0 (exact in doubles at these sizes).
RECURSIVE Pow(_, _)
Pow(b, e) == IF e = 0 THEN 1 ELSE b * Pow(b, e - 1)

\* floor(log_base(seq)) for seq >= 1, in exact arithmetic.
RECURSIVE ExactFloorLog(_)
ExactFloorLog(seq) == IF seq < base THEN 0 ELSE 1 + ExactFloorLog(seq \div base)

\* Math.floor(Math.log(seq) / logBase) for seq >= 1.  The quotient of the two
\* doubles is exact enough for every seq in range except an exact power
\* base^k, k >= 2, where it may come out just below k (Math.log(1000) /
\* Math.log(10) is 2.9999999999999996); which powers do is up to the platform.
FloorLog(seq) ==
    LET k == ExactFloorLog(seq)
    IN  IF logRoundsDown /\ k >= 2 /\ seq = Pow(base, k) THEN k - 1 ELSE k

\* ------------------------------------------------------------ the library
\* Mutant of lexSequenceThrows: the parity of the base is not checked.
lexSequenceThrowsOddAllowed(b) == b < 4

\* The guard of lexSequence(base): TRUE when it throws.
lexSequenceThrows(b) == b % 2 # 0 \/ b < 4

\* Returns the length in BASE digits.
len(seq) == IF seq = 0 THEN 1 ELSE FloorLog(seq) + 1

\* Mutant of first: BASE * (BASE/2)^(d-1) written as (BASE/2)^d.
firstWithoutBase(d) == Pow(base, d) - Pow(base \div 2, d)

\* Mutant of first: the exponent d - 1 written as d.
firstWrongExponent(d) == Pow(base, d) - base * Pow(base \div 2, d)

\* The first number in the sequence that has d digits.
first(d) == Pow(base, d) - base * Pow(base \div 2, d - 1)

\* Mutant of last: the trailing - 1 is missing.
lastOffByOne(d) == Pow(base, d) - Pow(base \div 2, d)

\* The last number in the sequence that has d digits.
last(d) == Pow(base, d) - Pow(base \div 2, d) - 1

\* Mutant of successor: seq is compared with the last number of the next
\* digit length, so the end of a length is never seen.
successorComparesNextLength(seq) ==
    IF seq = last(len(seq) + 1) THEN (seq + 1) * base ELSE seq + 1

\* Mutant of successor: a new length multiplies seq, not seq + 1.
successorNoCarry(seq) ==
    IF seq = last(len(seq)) THEN seq * base ELSE seq + 1

\* Given a number in the sequence, the next number in the sequence (seq >= 0).
successor(seq) ==
    IF seq = last(len(seq)) THEN (seq + 1) * base ELSE seq + 1

\* Mutant of the loop of sequence: remaining <= valueCount breaks the loop,
\* so each digit length runs one number past its last.
RECURSIVE sequenceFromInclusive(_, _)
sequenceFromInclusive(remaining, d) ==
    LET valueCount == Pow(base \div 2, d)
    IN  IF remaining <= valueCount
        THEN remaining + first(d)
        ELSE sequenceFromInclusive(remaining - valueCount, d + 1)

\* Mutant of the loop of sequence: digit length d is given (BASE/2)^(d-1)
\* values, so the lengths fill up too early.
RECURSIVE sequenceFromShortLengths(_, _)
sequenceFromShortLengths(remaining, d) ==
    LET valueCount == Pow(base \div 2, d - 1)
    IN  IF remaining < valueCount
        THEN remaining + first(d)
        ELSE sequenceFromShortLengths(remaining - valueCount, d + 1)

\* The loop of sequence: subtract the (BASE/2)^d values of each digit length
\* d until the remainder fits.
RECURSIVE sequenceFrom(_, _)
sequenceFrom(remaining, d) ==
    LET valueCount == Pow(base \div 2, d)
    IN  IF remaining < valueCount
        THEN remaining + first(d)
        ELSE sequenceFrom(remaining - valueCount, d + 1)

\* Returns the n-th number in the sequence.
sequence(index) == sequenceFrom(index, 1)

\* Sum of (BASE/2)^d2 for d2 = from .. d - 1: the trailing loop of sequenceInvSafe.
RECURSIVE shorterLengths(_, _)
shorterLengths(d2, d) ==
    IF d2 < d THEN Pow(base \div 2, d2) + shorterLengths(d2 + 1, d) ELSE 0

\* Mutant of sequenceInvSafe: the loop over shorter lengths starts at d2 = 0.
sequenceInvSafeFromZero(seq) ==
    IF seq < 0
    THEN -1
    ELSE LET d == len(seq)
             ans == seq - first(d)
         IN  IF ans < 0 \/ ans >= Pow(base \div 2, d)
             THEN -1
             ELSE ans + shorterLengths(0, d)

\* Mutant of sequenceInvSafe: the range check reads ans > (BASE/2)^d.
sequenceInvSafeInclusive(seq) ==
    IF seq < 0
    THEN -1
    ELSE LET d == len(seq)
             ans == seq - first(d)
         IN  IF ans < 0 \/ ans > Pow(base \div 2, d)
             THEN -1
             ELSE ans + shorterLengths(1, d)

\* Inverse of sequence: the index of seq, or -1 if seq is not a member.
sequenceInvSafe(seq) ==
    IF seq < 0
    THEN -1
    ELSE LET d == len(seq)
             ans == seq - first(d)
         IN  IF ans < 0 \/ ans >= Pow(base \div 2, d)
             THEN -1
             ELSE ans + shorterLengths(1, d)

\* Inverse of sequence: throws if seq is not a member.
sequenceInv(seq) ==
    LET ans == sequenceInvSafe(seq)
    IN  IF ans = -1 THEN Throw("NotAMember") ELSE Return(ans)

\* --------------------------------------------------------- digit strings
\* n.toString(b) for n >= 0, as the sequence of digit values, most
\* significant first; 0 is the one digit <<0>>.
RECURSIVE toString(_, _)
toString(n, b) ==
    IF n < b THEN <<n>> ELSE Append(toString(n \div b, b), n % b)

\* b.startsWith(a)
startsWith(b, a) == Len(a) <= Len(b) /\ SubSeq(b, 1, Len(a)) = a

\* a < b on strings: at the first position where they differ the digit of a
\* is smaller, or a is a proper prefix of b.
RECURSIVE strLess(_, _)
strLess(a, b) ==
    IF Len(b) = 0 THEN FALSE
    ELSE IF Len(a) = 0 THEN TRUE
    ELSE IF Head(a) # Head(b) THEN Head(a) < Head(b)
    ELSE strLess(Tail(a), Tail(b))

\* ------------------------------------------------------------ the caller
\* One call of entry point op of lexSequence(base): the constructor's check
\* runs first, then the function.
Entry(op, arg) ==
    IF lexSequenceThrows(base) THEN Throw("InvalidBase")
    ELSE CASE op = "sequence" -> Return(sequence(arg))
           [] op = "sequenceInv" -> sequenceInv(arg)
           [] op = "sequenceInvSafe" -> Return(sequenceInvSafe(arg))
           [] op = "successor" -> Return(successor(arg))

\* The record of a call and its outcome.
Invoke(op, arg) ==
    LET out == Entry(op, arg)
    IN  [op |-> op, arg |-> arg, ret |-> out.ret, err |-> out.err]

NoCall == [op |-> "none", arg |-> 0, ret |-> 0, err |-> "none"]

\* The test file builds the sequence only for valid bases; an invalid base
\* goes straight to the calls.
Init ==
    /\ base \in Bases
    /\ logRoundsDown \in BOOLEAN
    /\ phase = IF lexSequenceThrows(base) THEN "tests" ELSE "before"
    /\ first10k = <<0>>
    /\ call = NoCall

\* before(): first10k.push(successor(first10k.at(-1)))
BeforeStep ==
    /\ phase = "before"
    /\ idx < MaxIndex
    /\ call' = Invoke("successor", cur)
    /\ first10k' = Append(first10k, call'.ret)
    /\ UNCHANGED <<base, logRoundsDown, phase>>

\* The before hook is over: the tests run.
BeforeDone ==
    /\ phase = "before"
    /\ idx = MaxIndex
    /\ phase' = "tests"
    /\ call' = NoCall
    /\ UNCHANGED <<base, logRoundsDown, first10k>>

CallSequence ==
    /\ phase = "tests"
    /\ \E index \in IndexArgs : call' = Invoke("sequence", index)
    /\ phase' = "called"
    /\ UNCHANGED <<base, logRoundsDown, first10k>>

CallSequenceInv ==
    /\ phase = "tests"
    /\ \E seq \in ValueArgs : call' = Invoke("sequenceInv", seq)
    /\ phase' = "called"
    /\ UNCHANGED <<base, logRoundsDown, first10k>>

CallSequenceInvSafe ==
    /\ phase = "tests"
    /\ \E seq \in ValueArgs : call' = Invoke("sequenceInvSafe", seq)
    /\ phase' = "called"
    /\ UNCHANGED <<base, logRoundsDown, first10k>>

CallSuccessor ==
    /\ phase = "tests"
    /\ \E seq \in MemberArgs : call' = Invoke("successor", seq)
    /\ phase' = "called"
    /\ UNCHANGED <<base, logRoundsDown, first10k>>

\* The caller has looked at the outcome and goes on to its next call.
NextTest ==
    /\ phase = "called"
    /\ phase' = "tests"
    /\ call' = NoCall
    /\ UNCHANGED <<base, logRoundsDown, first10k>>

Next ==
    \/ BeforeStep
    \/ BeforeDone
    \/ CallSequence
    \/ CallSequenceInv
    \/ CallSequenceInvSafe
    \/ CallSuccessor
    \/ NextTest

Spec == Init /\ [][Next]_vars

\* ------------------------------------------------------------- properties
ValidBase == base % 2 = 0 /\ base >= 4
Indices == 0 .. MaxIndex

\* A call of op that returned (did not throw), on a valid base.
Returned(op) == ValidBase /\ call.op = op /\ call.err = "none"

\* C1: on a valid base, the number reached by applying successor i times from
\* 0 is sequence(i), for every i; so sequence(0) = 0 and each step of the
\* iteration takes sequence(i) to sequence(i + 1).
SuccessorIteratesSequence ==
    ValidBase =>
        /\ first10k[1] = 0
        /\ \A i \in 0 .. idx : first10k[i + 1] = sequence(i)
        /\ (phase = "before" /\ call.op = "successor") =>
              /\ call.arg = sequence(idx - 1)
              /\ call.err = "none"
              /\ call.ret = sequence(idx)

\* C1 witness: the iteration has just stepped over the end of a digit length.
SuccessorCrossedLength ==
    /\ phase = "before"
    /\ base = 10
    /\ call.op = "successor"
    /\ call.arg = 74
    /\ call.ret = 750
    /\ idx = 30
    /\ cur = sequence(30)

\* C2: on a valid base, sequenceInv and sequenceInvSafe of sequence(i) both
\* return i, without throwing, for every index i.
InverseRecoversIndex ==
    \A i \in Indices :
        (/\ ValidBase
         /\ call.op \in {"sequenceInv", "sequenceInvSafe"}
         /\ call.arg = sequence(i))
        => (call.err = "none" /\ call.ret = i)

\* C2 witness: sequenceInv was called on a three-digit member and returned
\* its index.
InverseOfLongMember ==
    /\ base = 10
    /\ call.op = "sequenceInv"
    /\ call.arg = sequence(37)
    /\ call.arg = 757
    /\ call.ret = 37

\* C3: on a valid base, the digit string of sequence(i) is not a prefix of
\* the digit string of sequence(j), for all indices i # j.
NoMemberIsAPrefix ==
    \A j \in Indices :
        (Returned("sequence") /\ call.arg >= 0 /\ j # call.arg)
        => ~startsWith(toString(sequence(j), base), toString(call.ret, base))

\* C3 witness: sequence returned a one-digit member while longer members exist.
ShortMemberAmongLonger ==
    /\ Returned("sequence")
    /\ base = 4
    /\ call.arg = 1
    /\ call.ret = 1
    /\ toString(sequence(MaxIndex), base)[1] = 3
    /\ Len(toString(sequence(MaxIndex), base)) >= 5

\* C4: on a valid base, the digit string of sequence(i) is strictly less, in
\* lexicographic order, than the digit string of sequence(i + 1).
LexicographicOrder ==
    (Returned("sequence") /\ call.arg >= 0)
    => strLess(toString(call.ret, base), toString(sequence(call.arg + 1), base))

\* C4 witness: sequence returned the last member of a digit length, so its
\* successor is longer.
LastOfLengthReturned ==
    /\ Returned("sequence")
    /\ base = 10
    /\ call.arg = 29
    /\ toString(call.ret, base) = <<7, 4>>
    /\ toString(sequence(call.arg + 1), base) = <<7, 5, 0>>

\* C5: on a valid base, sequence(i) < sequence(i + 1) as integers.
NumericOrder ==
    (Returned("sequence") /\ call.arg >= 0) => call.ret < sequence(call.arg + 1)

\* C5 witness: sequence returned the last one-digit member of base 6.
LastOneDigitReturned ==
    /\ Returned("sequence")
    /\ base = 6
    /\ call.arg = 2
    /\ call.ret = 2
    /\ sequence(3) = 18

\* The members of index 0 .. MaxIndex; below sequence(MaxIndex) these are all
\* the members there are.
Members == {sequence(i) : i \in Indices}
NonMember(v) == v < 0 \/ (v <= sequence(MaxIndex) /\ v \notin Members)

\* C6: on a valid base, for a value that is negative or is not sequence(i)
\* for any i, sequenceInvSafe returns -1 without throwing and sequenceInv
\* throws NotAMember; and sequenceInvSafe never returns -1 for a member.
NonMembersRejected ==
    /\ (ValidBase /\ call.op = "sequenceInvSafe" /\ NonMember(call.arg))
       => (call.err = "none" /\ call.ret = -1)
    /\ (ValidBase /\ call.op = "sequenceInv" /\ NonMember(call.arg))
       => call.err = "NotAMember"
    /\ (ValidBase /\ call.op = "sequenceInvSafe" /\ call.arg \in Members)
       => (call.err = "none" /\ call.ret # -1)

\* C6 witness: sequenceInv threw on base/2 + 1, a value of the unused tail of
\* the one-digit numbers.
TailValueRejected ==
    /\ base = 8
    /\ call.op = "sequenceInv"
    /\ call.arg = base \div 2 + 1
    /\ NonMember(call.arg)
    /\ call.err = "NotAMember"

\* C6 second case reached: sequenceInvSafe was handed an exact power of the
\* base whose length the logarithm got one short, and still returned -1.
RoundedPowerRejected ==
    /\ base = 10
    /\ logRoundsDown
    /\ call.op = "sequenceInvSafe"
    /\ call.arg = 100
    /\ len(call.arg) = 2
    /\ call.ret = -1

\* C7: every entry point throws InvalidBase when the base is odd or less than
\* 4, sequenceInvSafe included, and no even base >= 4 is rejected.
InvalidBaseRejected ==
    call.op # "none" =>
        (call.err = "InvalidBase" <=> (base % 2 = 1 \/ base < 4))

\* C7 witness: sequenceInvSafe, which otherwise never throws, threw on the
\* odd base 25.
SafeInverseThrewOnOddBase ==
    /\ base = 25
    /\ call.op = "sequenceInvSafe"
    /\ call.err = "InvalidBase"

\* C8: on a valid base, sequence(index) throws InvalidIndex whenever index is
\* negative; it never returns a value for such an index.
NegativeIndexRejected ==
    (ValidBase /\ call.op = "sequence" /\ call.arg < 0)
    => call.err = "InvalidIndex"

\* C9: on a valid base, for every index i >= 1 the number of base digits of
\* sequence(i) is at most floor(log_{base/2}(i)) + 1, the number of digits of
\* i written in base base/2.
LogarithmicLength ==
    (Returned("sequence") /\ call.arg >= 1)
    => Len(toString(call.ret, base)) <= Len(toString(call.arg, base \div 2))

\* C9 witness: sequence returned the first three-digit member of base 10, at
\* the index 30, which has three digits in base 5.
FirstThreeDigitMember ==
    /\ Returned("sequence")
    /\ base = 10
    /\ call.arg = 30
    /\ Len(toString(call.ret, base)) = 3
    /\ toString(call.arg, base \div 2) = <<1, 1, 0>>

\* Digit lengths whose ranges are examined.
Lengths == 1 .. MaxDigits

\* C10: on a valid base, for every d >= 1: first(d) .. last(d) are
\* (base/2)^d consecutive integers, each with exactly d digits and each a
\* member; every member with d digits lies in first(d) .. last(d); the
\* ranges of different d do not overlap, and last(d) < first(d + 1).
LengthRanges ==
    ValidBase =>
        /\ \A d \in Lengths :
              /\ last(d) - first(d) + 1 = Pow(base \div 2, d)
              /\ Len(toString(first(d), base)) = d
              /\ Len(toString(last(d), base)) = d
              /\ last(d) < first(d + 1)
              /\ \A e \in Lengths :
                    e # d => (last(d) < first(e) \/ last(e) < first(d))
              /\ (last(d) <= sequence(MaxIndex)) =>
                    Cardinality({i \in Indices :
                        Len(toString(sequence(i), base)) = d}) = Pow(base \div 2, d)
        /\ (call.op = "sequence" /\ call.err = "none" /\ call.arg >= 0) =>
              LET d == Len(toString(call.ret, base))
              IN  first(d) <= call.ret /\ call.ret <= last(d)
        /\ \A d \in Lengths :
              (/\ call.op \in {"sequenceInv", "sequenceInvSafe", "successor"}
               /\ first(d) <= call.arg
               /\ call.arg <= last(d))
              => /\ Len(toString(call.arg, base)) = d
                 /\ call.arg <= sequence(MaxIndex) => call.arg \in Members

\* C10 witness: a value in the middle of the two-digit range of base 10 was
\* handed to an entry point, and a two-digit member was returned by sequence.
MidRangeValueCalled ==
    /\ base = 10
    /\ call.op = "sequenceInvSafe"
    /\ call.arg = 62
    /\ first(2) = 50
    /\ last(2) = 74
    /\ call.arg \in Members

\* The members of index 0 .. MaxIndex + 1: the successor of each member of
\* Members is among them.
MembersAndNext == {sequence(i) : i \in 0 .. MaxIndex + 1}

\* C11: on a valid base, for a member v with d digits: if v = last(d) then
\* successor(v) = (v + 1) * base, which is first(d + 1) and has d + 1 digits;
\* otherwise successor(v) = v + 1, a member with d digits.  Either way
\* successor(v) is the smallest member strictly greater than v.
SuccessorDecisionRule ==
    (ValidBase /\ call.op = "successor" /\ call.arg \in Members)
    => LET v == call.arg
           d == Len(toString(v, base))
       IN  /\ call.err = "none"
           /\ IF v = last(d)
              THEN /\ call.ret = (v + 1) * base
                   /\ call.ret = first(d + 1)
                   /\ Len(toString(call.ret, base)) = d + 1
              ELSE /\ call.ret = v + 1
                   /\ Len(toString(call.ret, base)) = d
           /\ call.ret \in MembersAndNext
           /\ call.ret > v
           /\ \A m \in MembersAndNext : m > v => call.ret <= m

\* C11 witness: a test called successor on the last two-digit member of base
\* 10 and got the first three-digit member.
SuccessorOfLastTwoDigit ==
    /\ phase = "called"
    /\ base = 10
    /\ call.op = "successor"
    /\ call.arg = 74
    /\ call.arg = last(2)
    /\ call.arg \in Members
    /\ call.ret = 750

====
